---- MODULE Spec2Model ----
(***************************************************************************)
(* A model of src/source_distribution.rs of pyo3-pack:                     *)
(*   source_distribution()  - lists the files of a crate with              *)
(*                            `cargo package --list` and hands them to the *)
(*                            SDistWriter;                                 *)
(*   get_pyproject_toml()   - reads and deserializes pyproject.toml.       *)
(*                                                                         *)
(* Text is modelled as a sequence of tokens.  A token is a path separator, *)
(* a line feed, a carriage return, a byte that is not valid utf-8, a dot   *)
(* or a run of ordinary characters (a name).  std::path::Path keeps the    *)
(* text it was made from; Path equality compares components, join() and    *)
(* parent() are the textual operations of the standard library.            *)
(***************************************************************************)
EXTENDS Integers, Sequences, FiniteSets, TLC

\* ------------------------------------------------------------------------
\* Bounds and input alphabets
\* ------------------------------------------------------------------------

\* longest captured stdout (in tokens) that is enumerated exhaustively
MaxOut == 4

\* most entries the [build-system] `requires` array of a document has
MaxRequires == 2

SEP == "/"
LF  == "<LF>"
CR  == "<CR>"
BAD == "<0xFF>"
DOT == "."

\* tokens of the exhaustively enumerated outputs
OutTokens == {LF, SEP, BAD, DOT, "pyproject.toml", "PKG-INFO", "src"}

\* Option<T>: None is the empty sequence, Some(x) the one-element sequence
None == <<>>
Some(x) == <<x>>
IsSome(o) == Len(o) = 1
Unwrap(o) == o[1]

\* ------------------------------------------------------------------------
\* Text and path primitives of the standard library
\* ------------------------------------------------------------------------

RECURSIVE SplitOn(_, _)
\* the pieces of s between occurrences of token t (at least one piece)
SplitOn(s, t) ==
    IF \A i \in 1..Len(s) : s[i] # t
    THEN <<s>>
    ELSE LET k == CHOOSE i \in 1..Len(s) :
                      s[i] = t /\ \A j \in 1..(i - 1) : s[j] # t
         IN  <<SubSeq(s, 1, k - 1)>> \o SplitOn(SubSeq(s, k + 1, Len(s)), t)

\* str::from_utf8: the bytes are text iff none of them is invalid
FromUtf8(bytes) ==
    IF \E i \in 1..Len(bytes) : bytes[i] = BAD THEN None ELSE Some(bytes)

\* a line without the carriage return that precedes its line feed
StripCR(line, terminated) ==
    IF terminated /\ Len(line) > 0 /\ line[Len(line)] = CR
    THEN SubSeq(line, 1, Len(line) - 1)
    ELSE line

\* the variant of str::lines() that swallows empty lines
LinesSkipEmpty(text) ==
    LET pieces == SplitOn(text, LF)
        n      == Len(pieces)
        kept   == IF pieces[n] = <<>> THEN SubSeq(pieces, 1, n - 1) ELSE pieces
    IN  SelectSeq([i \in 1..Len(kept) |-> StripCR(kept[i], i < n)],
                  LAMBDA l : l # <<>>)

\* str::lines(): split at line feeds; a final line feed ends the last line
\* instead of starting an empty one; "\r\n" counts as one line ending
Lines(text) ==
    LET pieces == SplitOn(text, LF)
        n      == Len(pieces)
        kept   == IF pieces[n] = <<>> THEN SubSeq(pieces, 1, n - 1) ELSE pieces
    IN  [i \in 1..Len(kept) |-> StripCR(kept[i], i < n)]

\* Path::has_root (unix)
HasRoot(p) == Len(p) > 0 /\ p[1] = SEP

\* Path::components: the root flag and the normal components; empty pieces
\* (repeated or trailing separators) and "." pieces are skipped, except a
\* "." that starts a relative path
Components(p) ==
    LET pieces == SplitOn(p, SEP)
        tagged == [i \in 1..Len(pieces) |-> <<i, pieces[i]>>]
        Keep(e) == e[2] # <<>> /\ (e[2] = <<DOT>> => e[1] = 1)
        kept   == SelectSeq(tagged, Keep)
    IN  [root |-> HasRoot(p), parts |-> [i \in 1..Len(kept) |-> kept[i][2]]]

\* a comparison by the last component only
PathEqFileName(a, b) ==
    LET ca == Components(a).parts
        cb == Components(b).parts
    IN  /\ ca # <<>>
        /\ cb # <<>>
        /\ ca[Len(ca)] = cb[Len(cb)]

\* PartialEq for Path: equal iff the components are equal
PathEq(a, b) == Components(a) = Components(b)

RECURSIVE TrimTrail(_)
\* drop what Components skips at the end of a path: separators and "/."
TrimTrail(p) ==
    IF Len(p) > 1 /\ p[Len(p)] = SEP
    THEN TrimTrail(SubSeq(p, 1, Len(p) - 1))
    ELSE IF Len(p) > 1 /\ p[Len(p)] = DOT /\ p[Len(p) - 1] = SEP
         THEN TrimTrail(SubSeq(p, 1, Len(p) - 1))
         ELSE p

RECURSIVE DropLastComponent(_)
\* remove the tokens of the last component
DropLastComponent(p) ==
    IF p = <<>> \/ p[Len(p)] = SEP
    THEN p
    ELSE DropLastComponent(SubSeq(p, 1, Len(p) - 1))

\* Path::parent: None for the empty path and for the root
Parent(p) ==
    LET t == TrimTrail(p)
    IN  IF t = <<>> \/ t = <<SEP>>
        THEN None
        ELSE Some(TrimTrail(DropLastComponent(t)))

\* Path::join: an absolute argument replaces the base; otherwise it is
\* appended, after a separator unless the base is empty or ends in one
Join(base, p) ==
    IF HasRoot(p)
    THEN p
    ELSE IF base # <<>> /\ base[Len(base)] # SEP
         THEN base \o <<SEP>> \o p
         ELSE base \o p


\* ------------------------------------------------------------------------
\* Inputs of source_distribution
\* ------------------------------------------------------------------------

\* every token sequence of at most n tokens
SeqsUpTo(S, n) == UNION {[1..k -> S] : k \in 0..n}

\* longer listings of interest, among them the one of the specification
ExampleOutputs ==
    { <<"pyproject.toml", LF, "src", SEP, "lib.rs", LF>>,
      <<"Cargo.toml", LF, "pyproject.toml", CR, LF, "src", SEP, "lib.rs", LF>>,
      <<"sub", SEP, "pyproject.toml", LF, "src", SEP, "lib.rs", LF>>,
      <<DOT, SEP, "pyproject.toml", LF>>,
      <<"pyproject.toml", SEP, DOT, LF, LF, "PKG-INFO", LF>>,
      <<"pyproject.toml", LF, SEP, "etc", SEP, "passwd", LF>>,
      <<"pyproject.toml", LF, "pyproject.toml", LF, LF, "src", LF>> }

\* what the captured standard output of cargo can be
Outputs == SeqsUpTo(OutTokens, MaxOut) \cup ExampleOutputs

\* what Command::output() can yield: the process could not be started, or
\* it ran and left an exit status and its standard output
CargoRuns(outs) ==
    {[spawned |-> FALSE, success |-> FALSE, stdout |-> <<>>]}
    \cup [spawned : {TRUE}, success : BOOLEAN, stdout : outs]

ManifestPaths ==
    { <<SEP, "proj", SEP, "Cargo.toml">>, <<"Cargo.toml">>, <<SEP>> }

\* errors the SDistWriter can report
WriterErrors == {"No such file or directory", "Permission denied"}

\* paths SDistWriter::finish can return
ArtifactPaths ==
    { <<"dist", SEP, "pkg-0.1.0.tar.gz">>, <<SEP, "wheels", SEP, "pkg-0.1.0.tar.gz">> }

\* Metadata21::to_file_contents()
PkgInfoContents == "Metadata-Version: 2.1"

PyprojectToml == <<"pyproject.toml">>
PkgInfo == <<"PKG-INFO">>

\* ------------------------------------------------------------------------
\* State
\* ------------------------------------------------------------------------

VARIABLES
    pc,             \* the statement source_distribution is at
    manifest_path,  \* argument
    cargo,          \* how the cargo process behaves in this call
    output,         \* Option: the Output of the process
    file_list,      \* Option: Vec<&Path>
    manifest_dir,   \* Option: &Path
    target_source,  \* Option: Vec<(PathBuf, PathBuf)>
    idx,            \* position of the for loop in target_source
    writer,         \* the SDistWriter: "none", "open", "finished", "dropped"
    sdist_path,     \* Option: source_distribution_path
    effects,        \* what the call did to the outside, in order
    err,            \* Option: the Err the call returned
    result,         \* Option: the Ok the call returned
    prev,           \* Option: inputs and outcome of the call before
    gp_pc,          \* the statement get_pyproject_toml is at
    project_root,   \* argument
    path,           \* Option: project_root.join("pyproject.toml")
    file,           \* Option: what project_root/pyproject.toml holds
    contents,       \* Option: the String read
    gp_err,         \* Option: the Err get_pyproject_toml returned
    gp_result       \* Option: the PyProjectToml it returned

sd_vars == <<pc, manifest_path, cargo, output, file_list, manifest_dir,
             target_source, idx, writer, sdist_path, effects, err, result>>
gp_vars == <<gp_pc, project_root, path, file, contents, gp_err, gp_result>>
vars == <<sd_vars, prev, gp_vars>>

Error(kind, info) == [kind |-> kind, info |-> info]

\* an error: its message and what it carries (a sequence)
\* error messages of source_distribution
FailedToRunCargo == "Failed to run cargo"
FailedToQuery    == "Failed to query file list from cargo"
InvalidUtf8      == "Cargo printed invalid utf-8"
NotIncluded      == "pyproject.toml was not included by cargo package"

\* the state of a call that has not run its first statement
SdEntry(mp, c) ==
    /\ pc = "cargo"
    /\ manifest_path = mp
    /\ cargo = c
    /\ output = None
    /\ file_list = None
    /\ manifest_dir = None
    /\ target_source = None
    /\ idx = 1
    /\ writer = "none"
    /\ sdist_path = None
    /\ effects = <<>>
    /\ err = None
    /\ result = None

GpIdle ==
    /\ gp_pc = "idle"
    /\ project_root = <<>>
    /\ path = None
    /\ file = None
    /\ contents = None
    /\ gp_err = None
    /\ gp_result = None

Init ==
    /\ \E mp \in ManifestPaths, c \in CargoRuns(Outputs) : SdEntry(mp, c)
    /\ prev = None
    /\ GpIdle

\* the effects log holds <<"cargo", manifest path>>, the calls of the
\* SDistWriter as <<"new" | "add_file" | "add_bytes" | "finish", outcome,
\* arguments or returned path>> with outcome "ok" or the writer's error, and
\* <<"println", path>>
WriterOps == {"new", "add_file", "add_bytes", "finish"}

\* an early return with Err: locals go out of scope, an open writer is dropped
Bail(e) ==
    /\ pc' = "done"
    /\ err' = Some(e)
    /\ writer' = IF writer = "open" THEN "dropped" ELSE writer

\* ------------------------------------------------------------------------
\* source_distribution, statement by statement
\* ------------------------------------------------------------------------

\* lines 20-24: run cargo and wait for it
RunCargo ==
    /\ pc = "cargo"
    /\ effects' = Append(effects, <<"cargo", manifest_path>>)
    /\ IF cargo.spawned
       THEN /\ output' = Some([success |-> cargo.success, stdout |-> cargo.stdout])
            /\ pc' = "status"
            /\ UNCHANGED <<err, writer>>
       ELSE /\ Bail(Error(FailedToRunCargo, <<"No such file or directory">>))
            /\ UNCHANGED output
    /\ UNCHANGED <<manifest_path, cargo, file_list, manifest_dir, target_source,
                   idx, sdist_path, result, prev, gp_vars>>

\* a status test that lets every exit status pass
CheckStatusIgnored ==
    /\ pc = "status"
    /\ pc' = "decode"
    /\ UNCHANGED <<manifest_path, cargo, output, file_list, manifest_dir,
                   target_source, idx, writer, sdist_path, effects, err,
                   result, prev, gp_vars>>

\* lines 25-32: bail unless the exit status is success
CheckStatus ==
    /\ pc = "status"
    /\ IF ~Unwrap(output).success
       THEN Bail(Error(FailedToQuery, Unwrap(output).stdout))
       ELSE /\ pc' = "decode"
            /\ UNCHANGED <<err, writer>>
    /\ UNCHANGED <<manifest_path, cargo, output, file_list, manifest_dir,
                   target_source, idx, sdist_path, effects, result, prev,
                   gp_vars>>

\* a decoding into a list that outlives the call
DecodeKeeping ==
    /\ pc = "decode"
    /\ LET text == FromUtf8(Unwrap(output).stdout)
           kept == IF IsSome(prev) THEN Unwrap(prev).file_list ELSE None
       IN  IF IsSome(text)
           THEN /\ file_list' = IF IsSome(kept)
                                THEN Some(Unwrap(kept) \o Lines(Unwrap(text)))
                                ELSE Some(Lines(Unwrap(text)))
                /\ pc' = "manifest_dir"
                /\ UNCHANGED <<err, writer>>
           ELSE /\ Bail(Error(InvalidUtf8, <<"invalid utf-8 sequence">>))
                /\ UNCHANGED file_list
    /\ UNCHANGED <<manifest_path, cargo, output, manifest_dir, target_source,
                   idx, sdist_path, effects, result, prev, gp_vars>>

\* a decoding that replaces invalid bytes instead of failing
DecodeLossy ==
    /\ pc = "decode"
    /\ file_list' = Some(Lines(SelectSeq(Unwrap(output).stdout,
                                         LAMBDA b : b # BAD)))
    /\ pc' = "manifest_dir"
    /\ UNCHANGED <<manifest_path, cargo, output, manifest_dir, target_source,
                   idx, writer, sdist_path, effects, err, result, prev, gp_vars>>

\* lines 34-38: decode stdout and split it into lines
Decode ==
    /\ pc = "decode"
    /\ LET text == FromUtf8(Unwrap(output).stdout)
       IN  IF IsSome(text)
           THEN /\ file_list' = Some(Lines(Unwrap(text)))
                /\ pc' = "manifest_dir"
                /\ UNCHANGED <<err, writer>>
           ELSE /\ Bail(Error(InvalidUtf8, <<"invalid utf-8 sequence">>))
                /\ UNCHANGED file_list
    /\ UNCHANGED <<manifest_path, cargo, output, manifest_dir, target_source,
                   idx, sdist_path, effects, result, prev, gp_vars>>

\* line 40: parent().unwrap() panics when the manifest path has no parent
ManifestDir ==
    /\ pc = "manifest_dir"
    /\ IF IsSome(Parent(manifest_path))
       THEN /\ manifest_dir' = Parent(manifest_path)
            /\ pc' = "target_source"
            /\ UNCHANGED writer
       ELSE /\ pc' = "panicked"
            /\ writer' = IF writer = "open" THEN "dropped" ELSE writer
            /\ UNCHANGED manifest_dir
    /\ UNCHANGED <<manifest_path, cargo, output, file_list, target_source, idx,
                   sdist_path, effects, err, result, prev, gp_vars>>

\* pairs whose target is the joined path
TargetSourceFromCwd(list, dir) ==
    [k \in 1..Len(list) |-> <<Join(dir, list[k]), Join(dir, list[k])>>]

\* the pairs of lines 42-48 for a file list and a directory
TargetSource(list, dir) ==
    [k \in 1..Len(list) |-> <<list[k], Join(dir, list[k])>>]

\* lines 42-48: pair every listed path with its location
Resolve ==
    /\ pc = "target_source"
    /\ target_source' = Some(TargetSource(Unwrap(file_list), Unwrap(manifest_dir)))
    /\ pc' = "pyproject"
    /\ UNCHANGED <<manifest_path, cargo, output, file_list, manifest_dir, idx,
                   writer, sdist_path, effects, err, result, prev, gp_vars>>

\* a test that is content with a pyproject.toml in any directory
HasPyprojectAnywhere(ts) ==
    \E k \in 1..Len(ts) : PathEqFileName(ts[k][1], PyprojectToml)

\* lines 50-52: is some target pyproject.toml
HasPyproject(ts) ==
    \E k \in 1..Len(ts) : PathEq(ts[k][1], PyprojectToml)

\* lines 50-58: bail when pyproject.toml is not among the targets
CheckPyproject ==
    /\ pc = "pyproject"
    /\ IF ~HasPyproject(Unwrap(target_source))
       THEN Bail(Error(NotIncluded, <<>>))
       ELSE /\ pc' = "writer_new"
            /\ UNCHANGED <<err, writer>>
    /\ UNCHANGED <<manifest_path, cargo, output, file_list, manifest_dir,
                   target_source, idx, sdist_path, effects, result, prev,
                   gp_vars>>


\* where the for loop of lines 61-63 goes with its position at i
LoopPc(i) ==
    IF i <= Len(Unwrap(target_source)) THEN "add_file" ELSE "add_bytes"

\* line 60: SDistWriter::new(wheel_dir, &metadata21)?
WriterNew ==
    /\ pc = "writer_new"
    /\ \E r \in {"ok"} \cup WriterErrors :
          /\ effects' = Append(effects, <<"new", r>>)
          /\ IF r = "ok"
             THEN /\ writer' = "open"
                  /\ pc' = LoopPc(idx)
                  /\ UNCHANGED err
             ELSE Bail(Error(r, <<"new">>))
    /\ UNCHANGED <<manifest_path, cargo, output, file_list, manifest_dir,
                   target_source, idx, sdist_path, result, prev, gp_vars>>

\* a loop body that goes on after a failed add_file
AddFileUnchecked ==
    /\ pc = "add_file"
    /\ writer = "open"
    /\ LET e == Unwrap(target_source)[idx]
       IN  \E r \in {"ok"} \cup WriterErrors :
              /\ effects' = Append(effects, <<"add_file", r, e[1], e[2]>>)
              /\ idx' = idx + 1
              /\ pc' = LoopPc(idx + 1)
              /\ UNCHANGED <<err, writer>>
    /\ UNCHANGED <<manifest_path, cargo, output, file_list, manifest_dir,
                   target_source, sdist_path, result, prev, gp_vars>>

\* a loop body that adds a target only once
AddFileOnce ==
    /\ pc = "add_file"
    /\ writer = "open"
    /\ LET e == Unwrap(target_source)[idx]
           seen == \E k \in 1..Len(effects) :
                      effects[k][1] = "add_file" /\ effects[k][3] = e[1]
       IN  IF seen
           THEN /\ idx' = idx + 1
                /\ pc' = LoopPc(idx + 1)
                /\ UNCHANGED <<err, writer, effects>>
           ELSE \E r \in {"ok"} \cup WriterErrors :
                   /\ effects' = Append(effects, <<"add_file", r, e[1], e[2]>>)
                   /\ IF r = "ok"
                      THEN /\ idx' = idx + 1
                           /\ pc' = LoopPc(idx + 1)
                           /\ UNCHANGED <<err, writer>>
                      ELSE /\ Bail(Error(r, <<"add_file">>))
                           /\ UNCHANGED idx
    /\ UNCHANGED <<manifest_path, cargo, output, file_list, manifest_dir,
                   target_source, sdist_path, result, prev, gp_vars>>

\* lines 61-63: one iteration, writer.add_file(target, source)?
AddFile ==
    /\ pc = "add_file"
    /\ writer = "open"
    /\ LET e == Unwrap(target_source)[idx]
       IN  \E r \in {"ok"} \cup WriterErrors :
              /\ effects' = Append(effects, <<"add_file", r, e[1], e[2]>>)
              /\ IF r = "ok"
                 THEN /\ idx' = idx + 1
                      /\ pc' = LoopPc(idx + 1)
                      /\ UNCHANGED <<err, writer>>
                 ELSE /\ Bail(Error(r, <<"add_file">>))
                      /\ UNCHANGED idx
    /\ UNCHANGED <<manifest_path, cargo, output, file_list, manifest_dir,
                   target_source, sdist_path, result, prev, gp_vars>>

\* line 65: writer.add_bytes("PKG-INFO", metadata21.to_file_contents())?
AddBytes ==
    /\ pc = "add_bytes"
    /\ writer = "open"
    /\ \E r \in {"ok"} \cup WriterErrors :
          /\ effects' = Append(effects,
                               <<"add_bytes", r, PkgInfo, PkgInfoContents>>)
          /\ IF r = "ok"
             THEN /\ pc' = "finish"
                  /\ UNCHANGED <<err, writer>>
             ELSE Bail(Error(r, <<"add_bytes">>))
    /\ UNCHANGED <<manifest_path, cargo, output, file_list, manifest_dir,
                   target_source, idx, sdist_path, result, prev, gp_vars>>

\* line 67: writer.finish()? consumes the writer and yields the path
Finish ==
    /\ pc = "finish"
    /\ writer = "open"
    /\ \/ \E p \in ArtifactPaths :
             /\ effects' = Append(effects, <<"finish", "ok", p>>)
             /\ sdist_path' = Some(p)
             /\ writer' = "finished"
             /\ pc' = "println"
             /\ UNCHANGED err
       \/ \E r \in WriterErrors :
             /\ effects' = Append(effects, <<"finish", r>>)
             /\ Bail(Error(r, <<"finish">>))
             /\ UNCHANGED sdist_path
    /\ UNCHANGED <<manifest_path, cargo, output, file_list, manifest_dir,
                   target_source, idx, result, prev, gp_vars>>

\* lines 69-72: the completion message
Println ==
    /\ pc = "println"
    /\ effects' = Append(effects, <<"println", Unwrap(sdist_path)>>)
    /\ pc' = "return"
    /\ UNCHANGED <<manifest_path, cargo, output, file_list, manifest_dir,
                   target_source, idx, writer, sdist_path, err, result, prev,
                   gp_vars>>

\* line 74: Ok(source_distribution_path)
ReturnOk ==
    /\ pc = "return"
    /\ result' = sdist_path
    /\ pc' = "done"
    /\ UNCHANGED <<manifest_path, cargo, output, file_list, manifest_dir,
                   target_source, idx, writer, sdist_path, effects, err, prev,
                   gp_vars>>

\* ------------------------------------------------------------------------
\* A further call of source_distribution
\* ------------------------------------------------------------------------

\* listings of the runs in which the function is called again and again
RepeatOutputs == ExampleOutputs \cup SeqsUpTo({BAD, "pyproject.toml"}, 1)

\* the caller calls again; nothing of the finished call is kept by the
\* function (prev is the observer's record of it)
NextCall ==
    /\ pc \in {"done", "panicked"}
    /\ prev' = Some([manifest_path |-> manifest_path, cargo |-> cargo,
                     file_list |-> file_list, target_source |-> target_source,
                     err |-> err, pc |-> pc])
    /\ \E mp \in ManifestPaths, c \in CargoRuns(RepeatOutputs) :
          /\ pc' = "cargo"
          /\ manifest_path' = mp
          /\ cargo' = c
    /\ output' = None
    /\ file_list' = None
    /\ manifest_dir' = None
    /\ target_source' = None
    /\ idx' = 1
    /\ writer' = "none"
    /\ sdist_path' = None
    /\ effects' = <<>>
    /\ err' = None
    /\ result' = None
    /\ UNCHANGED gp_vars

\* ------------------------------------------------------------------------
\* get_pyproject_toml
\* ------------------------------------------------------------------------

\* toml values: a string, an integer, an array of values or a table.  A
\* table maps each key of its key universe to None (absent) or Some(value).
TomlString(x)  == [type |-> "string",  val |-> x]
TomlInteger(n) == [type |-> "integer", val |-> n]
TomlArray(a)   == [type |-> "array",   val |-> a]
TomlTable(t)   == [type |-> "table",   val |-> t]

BuildSystemKeys == {"requires", "build-backend", "build_backend"}
TopLevelKeys == {"build-system", "tool"}

ArrayElements == {TomlString("maturin"), TomlString("cffi"), TomlInteger(1)}

RequiresValues ==
    {TomlString("maturin")}
    \cup {TomlArray(a) : a \in SeqsUpTo(ArrayElements, MaxRequires)}

BackendValues ==
    {TomlString("maturin"), TomlString("setuptools.build_meta"), TomlInteger(1)}

OptionOf(S) == {None} \cup {Some(x) : x \in S}

\* the tables a [build-system] section can be
BuildSystemTables ==
    { [k \in BuildSystemKeys |->
          CASE k = "requires"      -> r
            [] k = "build-backend" -> b
            [] k = "build_backend" -> u]
      : r \in OptionOf(RequiresValues),
        b \in OptionOf(BackendValues),
        u \in OptionOf({TomlString("maturin")}) }

\* the documents a pyproject.toml can hold
Documents ==
    { [k \in TopLevelKeys |->
          CASE k = "build-system" -> bs
            [] k = "tool"         -> tool]
      : bs \in OptionOf({TomlString("maturin")}
                        \cup {TomlTable(t) : t \in BuildSystemTables}),
        tool \in OptionOf({TomlString("maturin")}) }

EmptyDocument == [k \in TopLevelKeys |-> None]

\* what the file can hold: bytes that are not utf-8, text that is not toml,
\* or a toml document
FileContents ==
    {[kind |-> "binary", doc |-> EmptyDocument],
     [kind |-> "text", doc |-> EmptyDocument]}
    \cup [kind : {"toml"}, doc : Documents]

ProjectRoots == { <<SEP, "proj">>, <<>>, <<"proj", SEP>> }

CouldntFind  == "Couldn't find pyproject.toml at"
NotCompliant == "pyproject.toml is not PEP 517 compliant"

Ok(v)     == [ok |-> TRUE,  val |-> v, msg |-> ""]
Failed(m) == [ok |-> FALSE, val |-> <<>>, msg |-> m]

\* Deserialize for Vec<String>
DeserializeStrings(v) ==
    IF v.type # "array"
    THEN Failed("invalid type: expected a sequence")
    ELSE IF \E k \in 1..Len(v.val) : v.val[k].type # "string"
         THEN Failed("invalid type: expected a string")
         ELSE Ok([k \in 1..Len(v.val) |-> v.val[k].val])

\* Deserialize for String
DeserializeString(v) ==
    IF v.type # "string"
    THEN Failed("invalid type: expected a string")
    ELSE Ok(v.val)

\* lines 78-83: the derived Deserialize of BuildSystem with kebab-case
\* names; keys it does not know are skipped
DeserializeBuildSystem(v) ==
    IF v.type # "table"
    THEN Failed("invalid type: expected struct BuildSystem")
    ELSE LET t == v.val
         IN  IF ~IsSome(t["requires"])
             THEN Failed("missing field requires")
             ELSE IF ~DeserializeStrings(Unwrap(t["requires"])).ok
             THEN DeserializeStrings(Unwrap(t["requires"]))
             ELSE IF ~IsSome(t["build-backend"])
             THEN Failed("missing field build-backend")
             ELSE IF ~DeserializeString(Unwrap(t["build-backend"])).ok
             THEN DeserializeString(Unwrap(t["build-backend"]))
             ELSE Ok([requires |->
                          DeserializeStrings(Unwrap(t["requires"])).val,
                      build_backend |->
                          DeserializeString(Unwrap(t["build-backend"])).val])

\* a Deserialize of PyProjectToml that rejects keys it does not know
DeserializeDenyUnknown(doc) ==
    IF \E k \in DOMAIN doc : k # "build-system" /\ IsSome(doc[k])
    THEN Failed("unknown field")
    ELSE IF ~IsSome(doc["build-system"])
         THEN Failed("missing field build-system")
         ELSE IF ~DeserializeBuildSystem(Unwrap(doc["build-system"])).ok
              THEN DeserializeBuildSystem(Unwrap(doc["build-system"]))
              ELSE Ok([build_system |->
                        DeserializeBuildSystem(Unwrap(doc["build-system"])).val])

\* lines 86-90: the derived Deserialize of PyProjectToml
DeserializePyProjectToml(doc) ==
    IF ~IsSome(doc["build-system"])
    THEN Failed("missing field build-system")
    ELSE IF ~DeserializeBuildSystem(Unwrap(doc["build-system"])).ok
         THEN DeserializeBuildSystem(Unwrap(doc["build-system"]))
         ELSE Ok([build_system |->
                      DeserializeBuildSystem(Unwrap(doc["build-system"])).val])

\* toml::from_str::<PyProjectToml>
TomlFromStr(text) ==
    IF text.kind # "toml"
    THEN Failed("expected an equals, found eof")
    ELSE DeserializePyProjectToml(text.doc)

\* fs::read_to_string: the file must exist and hold utf-8
ReadToString(f) ==
    IF IsSome(f) /\ Unwrap(f).kind # "binary" THEN f ELSE None

\* line 97: the path of the descriptor file
GpJoin ==
    /\ gp_pc = "join"
    /\ path' = Some(Join(project_root, PyprojectToml))
    /\ gp_pc' = "read"
    /\ UNCHANGED <<project_root, file, contents, gp_err, gp_result, sd_vars, prev>>

\* lines 98-101: read the file or return the error with the path
GpRead ==
    /\ gp_pc = "read"
    /\ IF IsSome(ReadToString(file))
       THEN /\ contents' = ReadToString(file)
            /\ gp_pc' = "parse"
            /\ UNCHANGED gp_err
       ELSE /\ gp_err' = Some(Error(CouldntFind, Unwrap(path)))
            /\ gp_pc' = "done"
            /\ UNCHANGED contents
    /\ UNCHANGED <<project_root, path, file, gp_result, sd_vars, prev>>

\* lines 102-104: deserialize, map the error, return
GpParse ==
    /\ gp_pc = "parse"
    /\ LET r == TomlFromStr(Unwrap(contents))
       IN  IF r.ok
           THEN /\ gp_result' = Some(r.val)
                /\ UNCHANGED gp_err
           ELSE /\ gp_err' = Some(Error(NotCompliant, <<r.msg>>))
                /\ UNCHANGED gp_result
    /\ gp_pc' = "done"
    /\ UNCHANGED <<project_root, path, file, contents, sd_vars, prev>>

GetPyprojectToml ==
    \/ GpJoin
    \/ GpRead
    \/ GpParse

\* source_distribution is not running
SdIdle ==
    /\ pc = "idle"
    /\ manifest_path = <<>>
    /\ cargo = [spawned |-> FALSE, success |-> FALSE, stdout |-> <<>>]
    /\ output = None
    /\ file_list = None
    /\ manifest_dir = None
    /\ target_source = None
    /\ idx = 1
    /\ writer = "none"
    /\ sdist_path = None
    /\ effects = <<>>
    /\ err = None
    /\ result = None

InitLoad ==
    /\ SdIdle
    /\ prev = None
    /\ gp_pc = "join"
    /\ project_root \in ProjectRoots
    /\ path = None
    /\ file \in OptionOf(FileContents)
    /\ contents = None
    /\ gp_err = None
    /\ gp_result = None

NextLoad == GetPyprojectToml

SpecLoad == InitLoad /\ [][NextLoad]_vars

SourceDistribution ==
    \/ RunCargo
    \/ CheckStatus
    \/ Decode
    \/ ManifestDir
    \/ Resolve
    \/ CheckPyproject
    \/ WriterNew
    \/ AddFile
    \/ AddBytes
    \/ Finish
    \/ Println
    \/ ReturnOk

Next == SourceDistribution

Spec == Init /\ [][Next]_vars

InitRepeat ==
    /\ \E mp \in ManifestPaths, c \in CargoRuns(RepeatOutputs) : SdEntry(mp, c)
    /\ prev = None
    /\ GpIdle

NextRepeat ==
    \/ SourceDistribution
    \/ NextCall

SpecRepeat == InitRepeat /\ [][NextRepeat]_vars


\* ========================================================================
\* Properties
\* ========================================================================

HasBad(bytes) == \E i \in 1..Len(bytes) : bytes[i] = BAD

\* cargo ran, exited with success and printed text
Listed == cargo.spawned /\ cargo.success /\ ~HasBad(cargo.stdout)

\* the calls the SDistWriter received so far
WriterCalls == SelectSeq(effects, LAMBDA e : e[1] \in WriterOps)

\* the lines cargo printed
Listing == Lines(cargo.stdout)

NoLineIsPyproject ==
    \A k \in 1..Len(Listing) : ~PathEq(Listing[k], PyprojectToml)

\* C1: when cargo succeeds with a listing none of whose lines is the path
\* pyproject.toml (compared as Path values), the call ends with the
\* "pyproject.toml was not included" error and the SDistWriter receives no
\* call at all: no new, add_file, add_bytes or finish.  A pyproject.toml in a
\* subdirectory does not count.
C1_MissingPyprojectStopsBeforeWriter ==
    (Listed /\ NoLineIsPyproject) =>
        /\ WriterCalls = <<>>
        /\ writer = "none"
        /\ pc \in {"cargo", "status", "decode", "manifest_dir", "target_source",
                   "pyproject", "done", "panicked"}
        /\ pc = "panicked" => Parent(manifest_path) = None
        /\ pc = "done" => /\ err = Some(Error(NotIncluded, <<>>))
                          /\ result = None

C1_Witness ==
    /\ pc = "done"
    /\ Listed
    /\ NoLineIsPyproject
    /\ \E k \in 1..Len(Listing) : PathEqFileName(Listing[k], PyprojectToml)
    /\ err = Some(Error(NotIncluded, <<>>))

\* C2: when cargo exits with a failure status the call ends with the
\* "Failed to query file list" error whatever stdout holds (invalid utf-8,
\* with or without pyproject.toml): nothing is decoded or resolved and the
\* SDistWriter receives no call.
C2_FailedStatusComesFirst ==
    (cargo.spawned /\ ~cargo.success) =>
        /\ file_list = None
        /\ manifest_dir = None
        /\ target_source = None
        /\ WriterCalls = <<>>
        /\ writer = "none"
        /\ pc \in {"cargo", "status", "done"}
        /\ pc = "done" => /\ err = Some(Error(FailedToQuery, cargo.stdout))
                          /\ result = None

C2_Witness ==
    /\ pc = "done"
    /\ cargo.spawned
    /\ ~cargo.success
    /\ HasBad(cargo.stdout)
    /\ \E i \in 1..Len(cargo.stdout) : cargo.stdout[i] = "pyproject.toml"
    /\ IsSome(err)
    /\ Unwrap(err).kind = FailedToQuery

\* number of lines of a text: one per line feed, one more for an
\* unterminated last line
NumLines(text) ==
    Cardinality({i \in 1..Len(text) : text[i] = LF})
    + (IF Len(text) > 0 /\ text[Len(text)] # LF THEN 1 ELSE 0)

RECURSIVE FlattenLines(_)
\* the lines written out again, each ended by a line feed
FlattenLines(ls) ==
    IF ls = <<>> THEN <<>> ELSE Head(ls) \o <<LF>> \o FlattenLines(Tail(ls))

\* a text without the carriage returns that precede a line feed
WithoutCRLF(text) ==
    LET tagged == [i \in 1..Len(text) |-> <<i, text[i]>>]
        Keep(e) == ~(e[2] = CR /\ e[1] < Len(text) /\ text[e[1] + 1] = LF)
        kept == SelectSeq(tagged, Keep)
    IN  [i \in 1..Len(kept) |-> kept[i][2]]

SpecListing == <<"pyproject.toml", LF, "src", SEP, "lib.rs", LF>>
ProjCargoToml == <<SEP, "proj", SEP, "Cargo.toml">>

\* C3: once the listing is resolved, target_source has one entry per line of
\* stdout, in the order of the lines, nothing dropped, merged or reordered
\* (empty and repeated lines included), and entry i is (line i, parent of the
\* manifest path joined with line i).  "pyproject.toml\nsrc/lib.rs\n" with
\* /proj/Cargo.toml gives [(pyproject.toml, /proj/pyproject.toml),
\* (src/lib.rs, /proj/src/lib.rs)].
C3_EntryPerLineInOrder ==
    IsSome(target_source) =>
        LET ts      == Unwrap(target_source)
            out     == cargo.stdout
            dir     == Unwrap(Parent(manifest_path))
            targets == [k \in 1..Len(ts) |-> ts[k][1]]
        IN  /\ Len(ts) = NumLines(out)
            /\ FlattenLines(targets)
                  \in {WithoutCRLF(out), WithoutCRLF(out) \o <<LF>>}
            /\ \A k \in 1..Len(ts) : ts[k][2] = Join(dir, ts[k][1])
            /\ (out = SpecListing /\ manifest_path = ProjCargoToml) =>
                  ts = << <<PyprojectToml, <<SEP, "proj", SEP, "pyproject.toml">>>>,
                          << <<"src", SEP, "lib.rs">>,
                             <<SEP, "proj", SEP, "src", SEP, "lib.rs">> >> >>

C3_Witness ==
    /\ IsSome(target_source)
    /\ cargo.stdout = <<"pyproject.toml", LF, "pyproject.toml", LF, LF, "src", LF>>
    /\ manifest_path = ProjCargoToml
    /\ Len(Unwrap(target_source)) = 4
    /\ Unwrap(target_source)[3] = << <<>>, <<SEP, "proj", SEP>> >>

C3_WitnessSpecExample ==
    /\ IsSome(target_source)
    /\ cargo.stdout = SpecListing
    /\ manifest_path = ProjCargoToml

IsUnder(p, dir) == Len(dir) <= Len(p) /\ SubSeq(p, 1, Len(dir)) = dir

C9_PkgInfoNameDistinct ==
    \A i, j \in 1..Len(effects) :
        (effects[i][1] = "add_file" /\ effects[j][1] = "add_bytes")
            => effects[i][3] # effects[j][3]

\* C10: when cargo exits with success but stdout is not valid utf-8, the call
\* ends with the "invalid utf-8" error: no line of it is used, nothing is
\* resolved, pyproject.toml is not looked for and the SDistWriter receives
\* no call.
C10_InvalidUtf8StopsBeforeResolution ==
    (cargo.spawned /\ cargo.success /\ HasBad(cargo.stdout)) =>
        /\ file_list = None
        /\ manifest_dir = None
        /\ target_source = None
        /\ WriterCalls = <<>>
        /\ writer = "none"
        /\ pc \in {"cargo", "status", "decode", "done"}
        /\ pc = "done" =>
              /\ err = Some(Error(InvalidUtf8, <<"invalid utf-8 sequence">>))
              /\ result = None

C10_Witness ==
    /\ pc = "done"
    /\ cargo.spawned
    /\ cargo.success
    /\ Len(cargo.stdout) >= 3
    /\ cargo.stdout[1] = "pyproject.toml"
    /\ cargo.stdout[2] = LF
    /\ HasBad(cargo.stdout)
    /\ IsSome(err)
    /\ Unwrap(err).kind = InvalidUtf8


\* the effects of a call that packaged the entries ts into the archive at p
ExpectedEffects(ts, p) ==
    << <<"cargo", manifest_path>>, <<"new", "ok">> >>
    \o [k \in 1..Len(ts) |-> <<"add_file", "ok", ts[k][1], ts[k][2]>>]
    \o << <<"add_bytes", "ok", PkgInfo, PkgInfoContents>>,
          <<"finish", "ok", p>>,
          <<"println", p>> >>

\* C6: a failure of SDistWriter::new, add_file, add_bytes or finish ends the
\* call: the failing call is the last thing the call did (no further writer
\* call, no finish after a failed add), the call returns exactly the
\* writer's error, the writer is released, no path is returned and no
\* completion message is printed.  A call that returns a path has made
\* every writer call with success.
C6_WriterFailureIsTerminal ==
    /\ \A k \in 1..Len(effects) :
          (effects[k][1] \in WriterOps /\ effects[k][2] # "ok") =>
              /\ k = Len(effects)
              /\ pc = "done"
              /\ err = Some(Error(effects[k][2], <<effects[k][1]>>))
              /\ writer = IF effects[k][1] = "new" THEN "none" ELSE "dropped"
    /\ IsSome(err) =>
          /\ pc = "done"
          /\ result = None
          /\ sdist_path = None
          /\ writer \in {"none", "dropped"}
          /\ \A k \in 1..Len(effects) : effects[k][1] # "println"
    /\ IsSome(result) =>
          /\ pc = "done"
          /\ err = None
          /\ writer = "finished"
          /\ \A k \in 1..Len(WriterCalls) : WriterCalls[k][2] = "ok"
          /\ Len(WriterCalls) = Len(Unwrap(target_source)) + 3

C6_Witness ==
    /\ pc = "done"
    /\ Len(effects) >= 4
    /\ effects[Len(effects) - 1][1] = "add_file"
    /\ effects[Len(effects) - 1][2] = "ok"
    /\ effects[Len(effects)][1] = "add_file"
    /\ effects[Len(effects)][2] = "Permission denied"
    /\ err = Some(Error("Permission denied", <<"add_file">>))
    /\ writer = "dropped"

\* C8: a call that returns Ok has, in this order and nothing else: run cargo
\* once, opened the writer once, called add_file once per entry of
\* target_source in its order (repeated targets included), called add_bytes
\* once with the metadata, called finish once, printed one message with the
\* path finish returned; that path is the result.
C8_EffectsOfSuccessfulCall ==
    (pc = "done" /\ IsSome(result)) =>
        LET expected == ExpectedEffects(Unwrap(target_source), Unwrap(result))
        IN  /\ Len(effects) = Len(expected)
            /\ \A k \in 1..Len(expected) :
                  /\ effects[k][1] = expected[k][1]
                  /\ effects[k] = expected[k]
            /\ result = sdist_path

C8_Witness ==
    /\ pc = "done"
    /\ IsSome(result)
    /\ \E i, j \in 1..Len(Unwrap(target_source)) :
          /\ i < j
          /\ Unwrap(target_source)[i] = Unwrap(target_source)[j]
    /\ effects[Len(effects)] = <<"println", Unwrap(result)>>

\* the errors of a call that are decided by cargo and the listing alone
ListingErrors == {FailedToRunCargo, FailedToQuery, InvalidUtf8, NotIncluded}

SameInputs ==
    /\ IsSome(prev)
    /\ Unwrap(prev).manifest_path = manifest_path
    /\ Unwrap(prev).cargo = cargo

Ended == pc \in {"done", "panicked"}

C7_WitnessToolFails ==
    /\ Ended
    /\ SameInputs
    /\ cargo.spawned
    /\ ~cargo.success
    /\ IsSome(err)

\* the file holds a [build-system] table with an array of strings under
\* requires and a string under build-backend
HasBuildSystem(f) ==
    /\ f.kind = "toml"
    /\ IsSome(f.doc["build-system"])
    /\ Unwrap(f.doc["build-system"]).type = "table"
    /\ LET t == Unwrap(f.doc["build-system"]).val
       IN  /\ IsSome(t["requires"])
           /\ Unwrap(t["requires"]).type = "array"
           /\ \A k \in 1..Len(Unwrap(t["requires"]).val) :
                 Unwrap(t["requires"]).val[k].type = "string"
           /\ IsSome(t["build-backend"])
           /\ Unwrap(t["build-backend"]).type = "string"

Readable(f) == IsSome(f) /\ Unwrap(f).kind # "binary"

\* C4: get_pyproject_toml ends in exactly one of three ways, decided by the
\* file project_root/pyproject.toml: the "Couldn't find" error with that
\* path when the file cannot be read; the "not PEP 517 compliant" error when
\* it is read but has no [build-system] table with an array of strings
\* requires and a string build-backend; otherwise a PyProjectToml whose
\* requires and build_backend are the values of the file, whatever other
\* sections the file has and whatever the values are.
C4_ThreeOutcomes ==
    gp_pc = "done" =>
        /\ IsSome(gp_err) # IsSome(gp_result)
        /\ ~Readable(file) =>
              gp_err = Some(Error(CouldntFind,
                                  Join(project_root, PyprojectToml)))
        /\ (Readable(file) /\ ~HasBuildSystem(Unwrap(file))) =>
              /\ IsSome(gp_err)
              /\ Unwrap(gp_err).kind = NotCompliant
        /\ (Readable(file) /\ HasBuildSystem(Unwrap(file))) =>
              LET t == Unwrap(Unwrap(file).doc["build-system"]).val
                  r == Unwrap(t["requires"]).val
              IN  /\ IsSome(gp_result)
                  /\ Unwrap(gp_result).build_system.requires
                        = [k \in 1..Len(r) |-> r[k].val]
                  /\ Unwrap(gp_result).build_system.build_backend
                        = Unwrap(t["build-backend"]).val

C4_Witness ==
    /\ gp_pc = "done"
    /\ IsSome(gp_result)
    /\ IsSome(Unwrap(file).doc["tool"])
    /\ Unwrap(gp_result).build_system.requires = <<"maturin">>
    /\ Unwrap(gp_result).build_system.build_backend = "setuptools.build_meta"

====
